---------------------------- MODULE Spec2Model ----------------------------
(***************************************************************************)
(* A model of nwis_data_extractor.py: build_url, get_nwis_data and         *)
(* gsheets_write.  Each function is a sequential program; it is modelled   *)
(* as a state machine whose program counter walks the statements of the    *)
(* function, and each function has a specification of its own (SpecUrl,    *)
(* SpecFetch, Spec for gsheets_write) because the functions share no       *)
(* state.  What the network, the credential file and the remote            *)
(* spreadsheet service answer is not decided by the code: every such call  *)
(* may return or raise.                                                    *)
(*                                                                         *)
(* Python values are records with a kind; a Python string is a sequence of *)
(* one-character strings, so that len(), iteration, concatenation and      *)
(* slicing act on characters as they do in Python.                         *)
(***************************************************************************)
EXTENDS Integers, Sequences, FiniteSets

VARIABLES
    kwargs,      \* build_url: the keyword arguments, in insertion order
    url,         \* build_url: the local `url`
    k,           \* build_url: position of the for-loop over kwargs.items()
    upc,         \* build_url: program counter
    webdata,     \* get_nwis_data: what the URL serves (the response)
    output,      \* get_nwis_data: the output argument of the running call
    fpc,         \* get_nwis_data: program counter
    i,           \* get_nwis_data: position of the for-loop over timeSeries
    lists,       \* get_nwis_data: the nine lists, in the order of line 95
    data,        \* get_nwis_data: the DataFrame built at lines 95-96
    outcome,     \* get_nwis_data: per output argument, how the call ended
    spreadsheet_title,  \* gsheets_write: argument
    email_address,      \* gsheets_write: argument
    sheetdata,   \* gsheets_write: the argument `data`, a DataFrame
    export_data, \* gsheets_write: the local `export_data`
    gpc,         \* gsheets_write: program counter
    steps,       \* gsheets_write: the calls made to the credential file and
                 \*   the remote service, in order, each with how it ended
    created,     \* remote: whether the new spreadsheet exists
    written,     \* remote: the rows this call appended to the sheet
    printed      \* how many times the confirmation was printed

(***************************************************************************)
(* Bounds of the model.                                                    *)
(***************************************************************************)
MaxStrLen == 2
MaxListLen == 2
MaxEntries == 2
MaxBlocks == 2
MaxReadings == 2
MaxRows == 2

(***************************************************************************)
(* Python values.                                                          *)
(***************************************************************************)
PyStr(s) == [kind |-> "str", chars |-> s, items |-> <<>>, n |-> 0]
PyInt(m) == [kind |-> "int", chars |-> <<>>, items |-> <<>>, n |-> m]
PyList(xs) == [kind |-> "list", chars |-> <<>>, items |-> xs, n |-> 0]
PyNone == [kind |-> "none", chars |-> <<>>, items |-> <<>>, n |-> 0]
PyTuple(xs) == [kind |-> "tuple", chars |-> <<>>, items |-> xs, n |-> 0]

\* a == b in Python, for the kinds of value modelled: values of different
\* kinds (a string and a tuple, say) are never equal.
PyEq(a, b) == a.kind = b.kind /\ a = b

\* x in xs, for a sequence of Python values
PyIn(x, xs) == \E j \in 1..Len(xs) : PyEq(x, xs[j])

\* Whether len(v) is defined: len() of an int raises TypeError.
HasLen(v) == v.kind \in {"str", "list", "tuple"}

\* the truth value of v in `if v:`, for None and strings
Truthy(v) == v.kind = "str" /\ v.chars # <<>>

\* v is None
IsNone(v) == v.kind = "none"

PyLen(v) == IF v.kind = "str" THEN Len(v.chars) ELSE Len(v.items)

\* What `for val in v` yields: the characters of a string, the items of a list.
Iter(v) ==
    IF v.kind = "str" THEN [j \in 1..Len(v.chars) |-> PyStr(<<v.chars[j]>>)]
    ELSE v.items

Digits == <<"0", "1", "2", "3", "4", "5", "6", "7", "8", "9">>

RECURSIVE IntStr(_)
IntStr(m) == IF m < 10 THEN <<Digits[m + 1]>>
             ELSE IntStr(m \div 10) \o <<Digits[(m % 10) + 1]>>

\* repr(v) and str(v).  str() of a string is the string; repr() quotes it
\* (the characters modelled need no escaping); str() of a list is its repr:
\* brackets around the items' repr, separated by ", ".
RECURSIVE ReprItems(_)
Repr(v) == IF v.kind = "str" THEN <<"'">> \o v.chars \o <<"'">>
           ELSE IntStr(v.n)

ReprItems(xs) ==
    IF xs = <<>> THEN <<>>
    ELSE IF Len(xs) = 1 THEN Repr(xs[1])
    ELSE Repr(xs[1]) \o <<",", " ">> \o ReprItems(Tail(xs))

Str(v) == IF v.kind = "str" THEN v.chars
          ELSE IF v.kind = "int" THEN IntStr(v.n)
          ELSE <<"[">> \o ReprItems(v.items) \o <<"]">>

(***************************************************************************)
(* build_url                                                               *)
(***************************************************************************)
\* The two base URLs.  Each is one atom of the url: nothing in build_url
\* looks inside it.
DvBase == "http://waterservices.usgs.gov/nwis/dv/?format=json&siteStatus=all"
IvBase == "http://waterservices.usgs.gov/nwis/iv/?format=json&siteStatus=all"

\* kwargs.items(): the (key, value) tuples, in order
Items(kw) == [j \in 1..Len(kw) |-> PyTuple(<<PyStr(kw[j].key), kw[j].value>>)]

\* 'dv' in kwargs.items()
DvRequested(kw) == PyIn(PyStr(<<"d", "v">>), Items(kw))

BaseUrl(kw) == IF DvRequested(kw) THEN <<DvBase>> ELSE <<IvBase>>

\* values = ''; for val in value: values = values + str(val) + ','
RECURSIVE CommaTerminated(_)
CommaTerminated(xs) ==
    IF xs = <<>> THEN <<>>
    ELSE Str(xs[1]) \o <<",">> \o CommaTerminated(Tail(xs))

\* s[:-1]
DropLast(s) == IF s = <<>> THEN <<>> ELSE SubSeq(s, 1, Len(s) - 1)

\* the else branch without the slice of line 42: the trailing comma stays
MultiValuesKeepComma(value) == CommaTerminated(Iter(value))

\* the text appended after '=' in the else branch: values[:-1]
MultiValues(value) == DropLast(CommaTerminated(Iter(value)))

\* the text appended after '=' in the len(value) == 1 branch: str(value)
SingleValue(value) == Str(value)

Segment(key, text) == <<"&">> \o key \o <<"=">> \o text

Alphabet == {"d", "v"}

RECURSIVE StrsOfLen(_)
StrsOfLen(m) ==
    IF m = 0 THEN {<<>>}
    ELSE {Append(s, c) : s \in StrsOfLen(m - 1), c \in Alphabet}

Strs(lo, hi) == UNION {StrsOfLen(m) : m \in lo..hi}

\* what a caller puts in a list: site numbers or parameter codes given as
\* strings or as integers
ListItems == {PyStr(<<"d">>), PyStr(<<"v", "d">>), PyInt(70)}

RECURSIVE ListsOfLen(_)
ListsOfLen(m) ==
    IF m = 0 THEN {<<>>}
    ELSE {Append(xs, x) : xs \in ListsOfLen(m - 1), x \in ListItems}

\* the values a keyword argument takes
KwValues ==
    {PyStr(s) : s \in Strs(0, MaxStrLen)}
        \cup {PyInt(7)}
        \cup {PyList(xs) : xs \in UNION {ListsOfLen(m) : m \in 0..MaxListLen}}

KeyData == <<"d", "a", "t", "a">>
KeySites == <<"s", "i", "t", "e", "s">>
Keys == {KeyData, KeySites}

\* a dict: no key twice
KwArgs ==
    {<<>>}
        \cup {<<[key |-> a, value |-> v]>> : a \in Keys, v \in KwValues}
        \cup UNION {{<<[key |-> a, value |-> v], [key |-> b, value |-> w]>> :
                        b \in Keys \ {a}, v \in KwValues, w \in KwValues} :
                    a \in Keys}

urlVars == <<kwargs, url, k, upc>>
fetchVars == <<webdata, output, fpc, i, lists, data, outcome>>
pubVars == <<spreadsheet_title, email_address, sheetdata, export_data, gpc,
             steps, created, written, printed>>
vars == <<urlVars, fetchVars, pubVars>>

NoFrame == [columns |-> <<>>, rows |-> <<>>]

\* the state of a function that is not running in the specification at hand
UrlIdle == kwargs = <<>> /\ url = <<>> /\ k = 0 /\ upc = "idle"
FetchIdle ==
    /\ webdata = [kind |-> "idle", timeSeries |-> <<>>]
    /\ output = "" /\ fpc = "idle" /\ i = 0 /\ lists = <<>> /\ data = NoFrame
    /\ outcome = <<>>
PubIdle ==
    /\ spreadsheet_title = PyNone /\ email_address = PyNone
    /\ sheetdata = NoFrame /\ export_data = <<>> /\ gpc = "idle"
    /\ steps = <<>> /\ created = FALSE /\ written = <<>> /\ printed = 0

InitUrl ==
    /\ kwargs \in KwArgs
    /\ url = <<>>
    /\ k = 0
    /\ upc = "base"
    /\ FetchIdle
    /\ PubIdle

\* lines 25-28: choose the base url
SelectBase ==
    /\ upc = "base"
    /\ url' = BaseUrl(kwargs)
    /\ k' = 1
    /\ upc' = "loop"
    /\ UNCHANGED <<kwargs, fetchVars, pubVars>>

\* line 32 on a value without len(): TypeError leaves the function
LenRaises ==
    /\ upc = "loop"
    /\ k <= Len(kwargs)
    /\ ~HasLen(kwargs[k].value)
    /\ upc' = "raised"
    /\ UNCHANGED <<kwargs, url, k, fetchVars, pubVars>>

\* lines 32-34
AppendSingle ==
    /\ upc = "loop"
    /\ k <= Len(kwargs)
    /\ HasLen(kwargs[k].value)
    /\ PyLen(kwargs[k].value) = 1
    /\ url' = url \o Segment(kwargs[k].key, SingleValue(kwargs[k].value))
    /\ k' = k + 1
    /\ UNCHANGED <<kwargs, upc, fetchVars, pubVars>>

\* lines 36-42
AppendMulti ==
    /\ upc = "loop"
    /\ k <= Len(kwargs)
    /\ HasLen(kwargs[k].value)
    /\ PyLen(kwargs[k].value) # 1
    /\ url' = url \o Segment(kwargs[k].key, MultiValues(kwargs[k].value))
    /\ k' = k + 1
    /\ UNCHANGED <<kwargs, upc, fetchVars, pubVars>>

\* line 44
ReturnUrl ==
    /\ upc = "loop"
    /\ k > Len(kwargs)
    /\ upc' = "done"
    /\ UNCHANGED <<kwargs, url, k, fetchVars, pubVars>>

NextUrl == SelectBase \/ LenRaises \/ AppendSingle \/ AppendMulti \/ ReturnUrl

SpecUrl == InitUrl /\ [][NextUrl]_vars

(***************************************************************************)
(* Properties of build_url                                                 *)
(***************************************************************************)
\* the documented way to ask for daily values: data='dv'
HasDailyMarker(kw) ==
    \E j \in 1..Len(kw) :
        kw[j].key = KeyData /\ kw[j].value = PyStr(<<"d", "v">>)

\* C1: the URL build_url returns starts with the daily-values base URL when
\* the keyword arguments hold the daily-values marker data='dv', and with
\* the instantaneous-values base URL when they do not.
C1_EndpointSelection ==
    upc = "done" =>
        url[1] = IF HasDailyMarker(kwargs) THEN DvBase ELSE IvBase

\* a single-valued argument: a string token, a number, or a list of one item
IsSingleValued(v) ==
    \/ v.kind = "str" /\ Len(v.chars) >= 1
    \/ v.kind = "int"
    \/ v.kind = "list" /\ Len(v.items) = 1

BareToken(v) == IF v.kind = "list" THEN Str(v.items[1]) ELSE Str(v)

RECURSIVE BareSegments(_)
BareSegments(kw) ==
    IF kw = <<>> THEN <<>>
    ELSE Segment(kw[1].key, BareToken(kw[1].value)) \o BareSegments(Tail(kw))

AllSingleValued(kw) == \A j \in 1..Len(kw) : IsSingleValued(kw[j].value)

\* C2: when every keyword argument is single-valued, build_url returns the
\* base URL followed, in order, by one '&name=value' per argument, value
\* being the bare token (not split into characters, not in brackets).
C2_SingleValued ==
    (upc = "done" /\ AllSingleValued(kwargs)) =>
        Tail(url) = BareSegments(kwargs)

\* v1,v2,...,vN
RECURSIVE CommaJoined(_)
CommaJoined(xs) ==
    IF xs = <<>> THEN <<>>
    ELSE IF Len(xs) = 1 THEN Str(xs[1])
    ELSE Str(xs[1]) \o <<",">> \o CommaJoined(Tail(xs))

\* seg stands in u at position p and is followed by the end of u or by the
\* next argument's '&'
SegmentAt(u, p, seg) ==
    /\ p + Len(seg) - 1 <= Len(u)
    /\ SubSeq(u, p, p + Len(seg) - 1) = seg
    /\ (p + Len(seg) - 1 = Len(u) \/ u[p + Len(seg)] = "&")

IsMultiValued(v) == v.kind = "list" /\ Len(v.items) >= 2

\* C3: for every argument whose value is a list of N >= 2 items, the URL
\* build_url returns contains '&name=v1,v2,...,vN': the items in order,
\* N-1 commas between them and none after the last.
C3_MultiValued ==
    upc = "done" =>
        \A j \in 1..Len(kwargs) :
            IsMultiValued(kwargs[j].value) =>
                \E p \in 1..Len(url) :
                    SegmentAt(url, p, Segment(kwargs[j].key,
                                              CommaJoined(kwargs[j].value.items)))

C3_Witness ==
    /\ upc = "done"
    /\ \E j \in 1..Len(kwargs) :
           /\ IsMultiValued(kwargs[j].value)
           /\ kwargs[j].value.items[1] # kwargs[j].value.items[2]


(***************************************************************************)
(* get_nwis_data                                                           *)
(***************************************************************************)
\* The column names of line 96, in order; lists[c] is the list that line 95
\* puts at position c.
Columns == <<"datetime_local", "site_id", "site_huc", "lat", "lon", "var",
             "var_code", "unit", "value">>

SimpleColumns == <<"datetime_local", "value">>

\* float(s), for the characters modelled: a non-empty string of decimal
\* digits is its value, anything else raises ValueError.
DigitChars == {Digits[d] : d \in 1..Len(Digits)}

DigitValue(c) == (CHOOSE d \in 1..Len(Digits) : Digits[d] = c) - 1

\* a conversion that never raises: a non-numeric value would pass as 0
FloatAcceptsAll(s) == TRUE

FloatAccepts(s) == s # <<>> /\ \A j \in 1..Len(s) : s[j] \in DigitChars

RECURSIVE FloatOf(_)
FloatOf(s) ==
    IF s = <<>> THEN 0
    ELSE IF s[Len(s)] \in DigitChars
         THEN 10 * FloatOf(DropLast(s)) + DigitValue(s[Len(s)])
         ELSE 0

\* s.split(',')[0]
RECURSIVE SplitFirst(_)
SplitFirst(s) ==
    IF s = <<>> \/ s[1] = "," THEN <<>>
    ELSE <<s[1]>> \o SplitFirst(Tail(s))

\* index -1 in place of index 0: the last reading of the last value block
LastReading(st) ==
    st.values[Len(st.values)][Len(st.values[Len(st.values)])]

\* station['values'][0]['value'][0]
FirstReading(st) == st.values[1][1]

\* Whether the expression appended to list c (lines 84-92) raises for
\* station st: an index past the end of a list, or float() of a
\* non-numeric string.
Raises(st, c) ==
    CASE c = 1 -> Len(st.values) = 0 \/ Len(st.values[1]) = 0
      [] c = 2 -> Len(st.siteCode) = 0
      [] c = 3 -> Len(st.siteProperty) < 2
      [] c = 7 -> Len(st.variableCode) = 0
      [] c = 9 -> \/ Len(st.values) = 0
                  \/ Len(st.values[1]) = 0
                  \/ ~FloatAccepts(FirstReading(st).value)
      [] OTHER -> FALSE

\* The value appended to list c (lines 84-92) for station st.
Extract(st, c) ==
    CASE c = 1 -> FirstReading(st).dateTime
      [] c = 2 -> st.siteCode[1]
      [] c = 3 -> st.siteProperty[2]
      [] c = 4 -> st.latitude
      [] c = 5 -> st.longitude
      [] c = 6 -> SplitFirst(st.variableName)
      [] c = 7 -> st.variableCode[1]
      [] c = 8 -> st.unitCode
      [] c = 9 -> FloatOf(FirstReading(st).value)

\* the first of the nine appends that raises; 10 when none does
FirstRaising(st) ==
    IF \E c \in 1..9 : Raises(st, c)
    THEN CHOOSE c \in 1..9 : Raises(st, c) /\ \A b \in 1..(c - 1) : ~Raises(st, b)
    ELSE 10

\* the lists after the nine appends of lines 84-92
Appended(ls, st) == [c \in 1..9 |-> Append(ls[c], Extract(st, c))]

\* pd.DataFrame([l1, ..., l9]).T with the columns of line 96: row r holds
\* the r-th element of each list
Frame(ls) ==
    [columns |-> Columns,
     rows |-> [r \in 1..Len(ls[1]) |-> [c \in 1..Len(ls) |-> ls[c][r]]]]

ColumnIndex(frame, name) ==
    CHOOSE c \in 1..Len(frame.columns) : frame.columns[c] = name

\* the last columns instead of the named ones
SelectTrailing(frame, names) ==
    [columns |-> names,
     rows |-> [r \in 1..Len(frame.rows) |->
                  [c \in 1..Len(names) |->
                      frame.rows[r][Len(frame.columns) - Len(names) + c]]]]

\* frame[names]: the named columns, in the order named
Select(frame, names) ==
    [columns |-> names,
     rows |-> [r \in 1..Len(frame.rows) |->
                  [c \in 1..Len(names) |->
                      frame.rows[r][ColumnIndex(frame, names[c])]]]]

\* What the service holds for one site and variable.
Reading(t, v) == [dateTime |-> t, value |-> v]

\* readings and blocks after the first: a later time and another value
LaterReading == Reading("t9", <<"2">>)

Block(first, nr) == [j \in 1..nr |-> IF j = 1 THEN first ELSE LaterReading]

Station(site, first, nb, nr, nprops) ==
    [siteCode |-> <<site>>,
     siteProperty |-> SubSeq(<<"tz-" \o site, "huc-" \o site>>, 1, nprops),
     latitude |-> IF site = "s1" THEN 38 ELSE 44,
     longitude |-> IF site = "s1" THEN 77 ELSE 93,
     variableName |-> IF site = "s1" THEN <<"Q", ",", " ", "c", "f", "s">>
                      ELSE <<"H">>,
     variableCode |-> <<"00060">>,
     unitCode |-> "ft3/s",
     values |-> [b \in 1..nb |-> IF b = 1 THEN Block(first, nr)
                                 ELSE <<LaterReading>>]]

Sites == {"s1", "s2"}
NumericValues == {<<"1">>, <<"1", "2">>}
NonNumericValues == {<<>>, <<"x">>, <<"1", "x">>}
Shapes == {<<1, 1>>, <<1, MaxReadings>>, <<MaxBlocks, 1>>}

WellFormedStations ==
    {Station(site, Reading("t-" \o site, v), sh[1], sh[2], 2) :
        site \in Sites, v \in NumericValues, sh \in Shapes}

\* one defect each: a non-numeric value, no value block, an empty value
\* block, one site property only, no site code, no variable code
MalformedStations ==
    {Station("s1", Reading("t1", v), 1, 1, 2) : v \in NonNumericValues}
        \cup {Station("s1", Reading("t1", <<"1">>), 0, 1, 2),
              Station("s1", Reading("t1", <<"1">>), 1, 0, 2),
              Station("s1", Reading("t1", <<"1">>), 1, 1, 1)}
        \cup {[Station("s1", Reading("t1", <<"1">>), 1, 1, 2)
                  EXCEPT !.siteCode = <<>>],
              [Station("s1", Reading("t1", <<"1">>), 1, 1, 2)
                  EXCEPT !.variableCode = <<>>]}

Stations == WellFormedStations \cup MalformedStations

RECURSIVE SeriesOfLen(_)
SeriesOfLen(m) ==
    IF m = 0 THEN {<<>>}
    ELSE {Append(ts, st) : ts \in SeriesOfLen(m - 1), st \in Stations}

\* What the URL serves: nothing (urlopen raises), a body that is not JSON
\* (json.loads raises), JSON without value.timeSeries (KeyError at line 83),
\* or JSON with a timeSeries list.
Responses ==
    {[kind |-> kd, timeSeries |-> <<>>] : kd \in {"unreachable", "notjson", "nokey"}}
        \cup {[kind |-> "json", timeSeries |-> ts] :
                 ts \in UNION {SeriesOfLen(m) : m \in 0..MaxEntries}}

\* the output arguments tried: the two documented ones and another string
Outputs == {"detailed", "simple", "summary"}

NotCalled == [status |-> "none", columns |-> <<>>, rows |-> <<>>]
Raised == [status |-> "raised", columns |-> <<>>, rows |-> <<>>]
Returned(frame) ==
    [status |-> "returned", columns |-> frame.columns, rows |-> frame.rows]

InitFetch ==
    /\ webdata \in Responses
    /\ output = ""
    /\ fpc = "idle"
    /\ i = 0
    /\ lists = <<>>
    /\ data = NoFrame
    /\ outcome = [o \in Outputs |-> NotCalled]
    /\ UrlIdle
    /\ PubIdle

\* an exception leaves the call: the locals are gone, nothing is returned
Raise ==
    /\ outcome' = [outcome EXCEPT ![output] = Raised]
    /\ fpc' = "idle"
    /\ i' = 0
    /\ lists' = <<>>
    /\ data' = NoFrame
    /\ UNCHANGED <<webdata, output, urlVars, pubVars>>

\* get_nwis_data(url_string, output=o)
Call(o) ==
    /\ fpc = "idle"
    /\ outcome[o].status = "none"
    /\ output' = o
    /\ fpc' = "read"
    /\ UNCHANGED <<webdata, i, lists, data, outcome, urlVars, pubVars>>

\* line 68: urlopen raises
OpenRaises ==
    /\ fpc = "read"
    /\ webdata.kind = "unreachable"
    /\ Raise

\* line 69: json.loads raises
LoadsRaises ==
    /\ fpc = "read"
    /\ webdata.kind = "notjson"
    /\ Raise

\* lines 68-80
ReadAndInitLists ==
    /\ fpc = "read"
    /\ webdata.kind \in {"nokey", "json"}
    /\ lists' = [c \in 1..9 |-> <<>>]
    /\ i' = 1
    /\ fpc' = "loop"
    /\ UNCHANGED <<webdata, output, data, outcome, urlVars, pubVars>>

\* line 83: webdata['value']['timeSeries'] raises KeyError
SeriesRaises ==
    /\ fpc = "loop"
    /\ webdata.kind = "nokey"
    /\ Raise

\* lines 84-92 for one station, all nine appends done
StationAppended ==
    /\ fpc = "loop"
    /\ webdata.kind = "json"
    /\ i <= Len(webdata.timeSeries)
    /\ FirstRaising(webdata.timeSeries[i]) = 10
    /\ lists' = Appended(lists, webdata.timeSeries[i])
    /\ i' = i + 1
    /\ UNCHANGED <<webdata, output, fpc, data, outcome, urlVars, pubVars>>

\* lines 84-92 for one station, one of the appends raises
StationRaises ==
    /\ fpc = "loop"
    /\ webdata.kind = "json"
    /\ i <= Len(webdata.timeSeries)
    /\ FirstRaising(webdata.timeSeries[i]) < 10
    /\ Raise

\* lines 95-96
BuildFrame ==
    /\ fpc = "loop"
    /\ webdata.kind = "json"
    /\ i > Len(webdata.timeSeries)
    /\ data' = Frame(lists)
    /\ fpc' = "built"
    /\ UNCHANGED <<webdata, output, i, lists, outcome, urlVars, pubVars>>

Return(frame) ==
    /\ outcome' = [outcome EXCEPT ![output] = Returned(frame)]
    /\ fpc' = "idle"
    /\ i' = 0
    /\ lists' = <<>>
    /\ data' = NoFrame
    /\ UNCHANGED <<webdata, output, urlVars, pubVars>>

\* lines 98-99
ReturnSimple ==
    /\ fpc = "built"
    /\ output = "simple"
    /\ Return(Select(data, SimpleColumns))

\* lines 100-101
ReturnData ==
    /\ fpc = "built"
    /\ output # "simple"
    /\ Return(data)

NextFetch ==
    \/ \E o \in Outputs : Call(o)
    \/ OpenRaises
    \/ LoadsRaises
    \/ ReadAndInitLists
    \/ SeriesRaises
    \/ StationAppended
    \/ StationRaises
    \/ BuildFrame
    \/ ReturnSimple
    \/ ReturnData

SpecFetch == InitFetch /\ [][NextFetch]_vars

(***************************************************************************)
(* Properties of get_nwis_data                                             *)
(***************************************************************************)
IsDecimal(s) ==
    /\ Len(s) >= 1
    /\ \A j \in 1..Len(s) : s[j] \in {"0", "1", "2", "3", "4", "5", "6", "7", "8", "9"}

\* a time series that holds every field get_nwis_data reads
WellFormed(st) ==
    /\ Len(st.values) >= 1
    /\ Len(st.values[1]) >= 1
    /\ IsDecimal(st.values[1][1].value)
    /\ Len(st.siteCode) >= 1
    /\ Len(st.siteProperty) >= 2
    /\ Len(st.variableCode) >= 1

WellFormedResponse ==
    /\ webdata.kind = "json"
    /\ \A j \in 1..Len(webdata.timeSeries) : WellFormed(webdata.timeSeries[j])

Cell(res, r, name) ==
    res.rows[r][CHOOSE c \in 1..Len(res.columns) : res.columns[c] = name]

\* the number a decimal string of the model's responses stands for
NumberOf(s) ==
    CASE s = <<"1">> -> 1
      [] s = <<"2">> -> 2
      [] s = <<"1", "2">> -> 12

\* C6: for a well-formed response with n time series, a finished call
\* returned a dataset of n rows; row r comes from time series r, and its
\* datetime and value are those of the first reading of the first value
\* block of that series, however many readings and blocks follow.
C6_RowConstruction ==
    WellFormedResponse =>
        \A o \in Outputs :
            /\ outcome[o].status # "raised"
            /\ outcome[o].status = "returned" =>
                /\ Len(outcome[o].rows) = Len(webdata.timeSeries)
                /\ \A r \in 1..Len(webdata.timeSeries) :
                       LET st == webdata.timeSeries[r] IN
                       /\ Cell(outcome[o], r, "datetime_local")
                              = st.values[1][1].dateTime
                       /\ Cell(outcome[o], r, "value")
                              = NumberOf(st.values[1][1].value)
                       /\ o # "simple" =>
                              Cell(outcome[o], r, "site_id") = st.siteCode[1]

C6_Witness ==
    /\ WellFormedResponse
    /\ Len(webdata.timeSeries) = 2
    /\ webdata.timeSeries[1].siteCode # webdata.timeSeries[2].siteCode
    /\ Len(webdata.timeSeries[1].values[1]) >= 2
    /\ Len(webdata.timeSeries[2].values) >= 2
    /\ outcome["detailed"].status = "returned"

\* C7: on the same response, what output='simple' returns is what
\* output='detailed' returns cut down to the columns (datetime, value):
\* as many rows, in the same order, with the same datetime and value;
\* 'detailed' has the nine columns in order; any other output argument
\* returns what 'detailed' returns.
C7_OutputShaping ==
    LET det == outcome["detailed"]
        sim == outcome["simple"]
        oth == outcome["summary"]
    IN  /\ det.status = "returned" =>
               det.columns = <<"datetime_local", "site_id", "site_huc", "lat",
                               "lon", "var", "var_code", "unit", "value">>
        /\ (det.status # "none" /\ sim.status # "none") =>
               /\ sim.status = det.status
               /\ sim.status = "returned" =>
                      /\ sim.columns = <<"datetime_local", "value">>
                      /\ Len(sim.rows) = Len(det.rows)
                      /\ \A r \in 1..Len(det.rows) :
                             sim.rows[r] = <<det.rows[r][1], det.rows[r][9]>>
        /\ (det.status # "none" /\ oth.status # "none") => oth = det

C7_Witness ==
    /\ outcome["detailed"].status = "returned"
    /\ outcome["simple"].status = "returned"
    /\ outcome["summary"].status = "returned"
    /\ Len(outcome["simple"].rows) = 2
    /\ outcome["simple"].rows[1] # outcome["simple"].rows[2]

\* C8: a call returns a dataset only when the fetch succeeded and every
\* time series of the response holds every field read and a numeric value;
\* otherwise it ends in an error and returns nothing: no dataset of the
\* rows before the failing series, no dataset that skips the failing one.
C8_AllOrNothing ==
    /\ \A o \in Outputs :
           /\ outcome[o].status = "returned" =>
                  /\ WellFormedResponse
                  /\ Len(outcome[o].rows) = Len(webdata.timeSeries)
           /\ (outcome[o].status # "none" /\ ~WellFormedResponse) =>
                  outcome[o] = Raised
    /\ data # NoFrame => WellFormedResponse

\* a call that failed at the second series after appending the first
C8_Witness ==
    /\ webdata.kind = "json"
    /\ Len(webdata.timeSeries) = 2
    /\ WellFormed(webdata.timeSeries[1])
    /\ ~WellFormed(webdata.timeSeries[2])
    /\ outcome["detailed"] = Raised

(***************************************************************************)
(* gsheets_write                                                           *)
(***************************************************************************)
\* One call to the credential file or to the remote service, and whether
\* it returned (ok) or raised.
Step(op, arg, ok) == [op |-> op, arg |-> arg, ok |-> ok]

\* lines 137 and 140: which of the two checks raises, if any
NeitherGiven(title, email) == IsNone(title) /\ IsNone(email)
BothGiven(title, email) == Truthy(title) /\ Truthy(email)

\* data.values.tolist(), and data.columns.tolist() put first when
\* email_address is true (lines 157-160)
ExportData(frame, email) ==
    IF Truthy(email) THEN <<frame.columns>> \o frame.rows ELSE frame.rows

\* the DataFrames handed to gsheets_write: what get_nwis_data returns for
\* responses of up to MaxRows time series, detailed or simple
RECURSIVE ListsOf(_)
ListsOf(ts) ==
    IF ts = <<>> THEN [c \in 1..9 |-> <<>>]
    ELSE Appended(ListsOf(DropLast(ts)), ts[Len(ts)])

RowStations ==
    {Station("s1", Reading("t-s1", <<"1">>), 1, 1, 2),
     Station("s2", Reading("t-s2", <<"1", "2">>), 1, 1, 2)}

RECURSIVE RowSeriesOfLen(_)
RowSeriesOfLen(m) ==
    IF m = 0 THEN {<<>>}
    ELSE {Append(ts, st) : ts \in RowSeriesOfLen(m - 1), st \in RowStations}

DataFrames ==
    {Select(Frame(ListsOf(ts)), cols) :
        ts \in UNION {RowSeriesOfLen(m) : m \in 0..MaxRows},
        cols \in {Columns, SimpleColumns}}

\* None, the empty string, a non-empty string
Titles == {PyNone, PyStr(<<>>), PyStr(<<"T">>)}
Addresses == {PyNone, PyStr(<<>>), PyStr(<<"a", "@", "b">>)}

Init ==
    /\ spreadsheet_title \in Titles
    /\ email_address \in Addresses
    /\ sheetdata \in DataFrames
    /\ export_data = <<>>
    /\ gpc = "check"
    /\ steps = <<>>
    /\ created = FALSE
    /\ written = <<>>
    /\ printed = 0
    /\ UrlIdle
    /\ FetchIdle

\* lines 137-138
CheckNeitherRaises ==
    /\ gpc = "check"
    /\ NeitherGiven(spreadsheet_title, email_address)
    /\ gpc' = "raised"
    /\ UNCHANGED <<spreadsheet_title, email_address, sheetdata, export_data,
                   steps, created, written, printed, urlVars, fetchVars>>

\* lines 140-141
CheckBothRaises ==
    /\ gpc = "check"
    /\ ~NeitherGiven(spreadsheet_title, email_address)
    /\ BothGiven(spreadsheet_title, email_address)
    /\ gpc' = "raised"
    /\ UNCHANGED <<spreadsheet_title, email_address, sheetdata, export_data,
                   steps, created, written, printed, urlVars, fetchVars>>

\* lines 137-141, neither check raises
CheckPasses ==
    /\ gpc = "check"
    /\ ~NeitherGiven(spreadsheet_title, email_address)
    /\ ~BothGiven(spreadsheet_title, email_address)
    /\ gpc' = "creds"
    /\ UNCHANGED <<spreadsheet_title, email_address, sheetdata, export_data,
                   steps, created, written, printed, urlVars, fetchVars>>

\* a call that returns: it is recorded and control moves on
Returns(op, arg, next) ==
    /\ steps' = Append(steps, Step(op, arg, TRUE))
    /\ gpc' = next

\* a call that raises: it is recorded and the exception leaves gsheets_write
Fails(op, arg) ==
    /\ steps' = Append(steps, Step(op, arg, FALSE))
    /\ gpc' = "raised"

\* line 146
LoadCredentials ==
    /\ gpc = "creds"
    /\ Returns("load", PyNone, "authorize")
    /\ UNCHANGED <<spreadsheet_title, email_address, sheetdata, export_data,
                   created, written, printed, urlVars, fetchVars>>

LoadCredentialsRaises ==
    /\ gpc = "creds"
    /\ Fails("load", PyNone)
    /\ UNCHANGED <<spreadsheet_title, email_address, sheetdata, export_data,
                   created, written, printed, urlVars, fetchVars>>

\* line 147
Authorize ==
    /\ gpc = "authorize"
    /\ Returns("authorize", PyNone, "sheet")
    /\ UNCHANGED <<spreadsheet_title, email_address, sheetdata, export_data,
                   created, written, printed, urlVars, fetchVars>>

AuthorizeRaises ==
    /\ gpc = "authorize"
    /\ Fails("authorize", PyNone)
    /\ UNCHANGED <<spreadsheet_title, email_address, sheetdata, export_data,
                   created, written, printed, urlVars, fetchVars>>

\* lines 150-151
OpenSheet ==
    /\ gpc = "sheet"
    /\ Truthy(spreadsheet_title)
    /\ Returns("open", spreadsheet_title, "export")
    /\ UNCHANGED <<spreadsheet_title, email_address, sheetdata, export_data,
                   created, written, printed, urlVars, fetchVars>>

OpenSheetRaises ==
    /\ gpc = "sheet"
    /\ Truthy(spreadsheet_title)
    /\ Fails("open", spreadsheet_title)
    /\ UNCHANGED <<spreadsheet_title, email_address, sheetdata, export_data,
                   created, written, printed, urlVars, fetchVars>>

\* create without the share of line 154
CreateSheetThenExport ==
    /\ gpc = "sheet"
    /\ ~Truthy(spreadsheet_title)
    /\ Returns("create", PyNone, "export")
    /\ created' = TRUE
    /\ UNCHANGED <<spreadsheet_title, email_address, sheetdata, export_data,
                   written, printed, urlVars, fetchVars>>

\* lines 152-153
CreateSheet ==
    /\ gpc = "sheet"
    /\ ~Truthy(spreadsheet_title)
    /\ Returns("create", PyNone, "share")
    /\ created' = TRUE
    /\ UNCHANGED <<spreadsheet_title, email_address, sheetdata, export_data,
                   written, printed, urlVars, fetchVars>>

CreateSheetRaises ==
    /\ gpc = "sheet"
    /\ ~Truthy(spreadsheet_title)
    /\ Fails("create", PyNone)
    /\ UNCHANGED <<spreadsheet_title, email_address, sheetdata, export_data,
                   created, written, printed, urlVars, fetchVars>>

\* line 154: sheet.share(email_address, perm_type='user', role='writer')
Share ==
    /\ gpc = "share"
    /\ Returns("share", email_address, "export")
    /\ UNCHANGED <<spreadsheet_title, email_address, sheetdata, export_data,
                   created, written, printed, urlVars, fetchVars>>

ShareRaises ==
    /\ gpc = "share"
    /\ Fails("share", email_address)
    /\ UNCHANGED <<spreadsheet_title, email_address, sheetdata, export_data,
                   created, written, printed, urlVars, fetchVars>>

\* lines 157-166
Export ==
    /\ gpc = "export"
    /\ export_data' = ExportData(sheetdata, email_address)
    /\ gpc' = "append"
    /\ UNCHANGED <<spreadsheet_title, email_address, sheetdata, steps,
                   created, written, printed, urlVars, fetchVars>>

\* line 168
AppendValues ==
    /\ gpc = "append"
    /\ Returns("append", PyNone, "print")
    /\ written' = written \o export_data
    /\ UNCHANGED <<spreadsheet_title, email_address, sheetdata, export_data,
                   created, printed, urlVars, fetchVars>>

\* a failed append that is swallowed: control goes on to the print
AppendValuesRaisesThenPrints ==
    /\ gpc = "append"
    /\ steps' = Append(steps, Step("append", PyNone, FALSE))
    /\ gpc' = "print"
    /\ UNCHANGED <<spreadsheet_title, email_address, sheetdata, export_data,
                   created, written, printed, urlVars, fetchVars>>

AppendValuesRaises ==
    /\ gpc = "append"
    /\ Fails("append", PyNone)
    /\ UNCHANGED <<spreadsheet_title, email_address, sheetdata, export_data,
                   created, written, printed, urlVars, fetchVars>>

\* line 170
PrintConfirmation ==
    /\ gpc = "print"
    /\ printed' = printed + 1
    /\ gpc' = "done"
    /\ UNCHANGED <<spreadsheet_title, email_address, sheetdata, export_data,
                   steps, created, written, urlVars, fetchVars>>

Next ==
    \/ CheckNeitherRaises
    \/ CheckBothRaises
    \/ CheckPasses
    \/ LoadCredentials
    \/ LoadCredentialsRaises
    \/ Authorize
    \/ AuthorizeRaises
    \/ OpenSheet
    \/ OpenSheetRaises
    \/ CreateSheet
    \/ CreateSheetRaises
    \/ Share
    \/ ShareRaises
    \/ Export
    \/ AppendValues
    \/ AppendValuesRaises
    \/ PrintConfirmation

Spec == Init /\ [][Next]_vars

(***************************************************************************)
(* Properties of gsheets_write                                             *)
(***************************************************************************)
\* a selector is supplied when it is neither None nor the empty string
Supplied(v) == ~IsNone(v) /\ v.chars # <<>>

Performed(op) == \E j \in 1..Len(steps) : steps[j].op = op

\* C4: when both selectors are supplied, or neither is (None or the empty
\* string), the call fails before the credentials are loaded and before any
\* authorize, open, create, share or append request.
C4_Precondition ==
    (Supplied(spreadsheet_title) = Supplied(email_address)) =>
        (steps = <<>> /\ gpc \in {"check", "raised"})

\* C5: once the append request is made, a spreadsheet opened by title is
\* sent the dataset rows and no header row; a created spreadsheet is sent
\* the column names as first row and then the dataset rows.
C5_HeaderPolicy ==
    Performed("append") =>
        /\ Performed("open") => export_data = sheetdata.rows
        /\ Performed("create") =>
               /\ Len(export_data) = Len(sheetdata.rows) + 1
               /\ export_data[1] = sheetdata.columns
               /\ Tail(export_data) = sheetdata.rows

\* C9: the confirmation is printed at most once and only after the append
\* request returned; a step that fails is the last step made, ends the call
\* in an error and no confirmation is printed.
C9_Confirmation ==
    /\ printed <= 1
    /\ printed = 1 <=> gpc = "done"
    /\ printed = 1 =>
           /\ steps # <<>>
           /\ steps[Len(steps)] = Step("append", PyNone, TRUE)
           /\ \A j \in 1..Len(steps) : steps[j].ok
    /\ \A j \in 1..Len(steps) :
           ~steps[j].ok => (j = Len(steps) /\ gpc = "raised" /\ printed = 0)
    /\ gpc = "raised" =>
           (printed = 0 /\ (steps = <<>> \/ ~steps[Len(steps)].ok))

C9_Witness == gpc = "done" /\ printed = 1 /\ Len(written) >= 2

\* the call got past the checks of lines 137-141
PassedCheck == gpc # "check" /\ ~(gpc = "raised" /\ steps = <<>>)

Ended == gpc \in {"done", "raised"}

\* C10 as stated, for the calls given exactly one selector: every call that
\* passes the precondition check performs exactly one of open and create.
C10_ExactlyOneMode ==
    (Ended /\ PassedCheck /\ Supplied(spreadsheet_title) # Supplied(email_address))
        => (Performed("open") # Performed("create"))

IsSheetStep(st) == st.op \in {"open", "create", "share", "append"}

\* the requests about the spreadsheet, in the order made
SheetOps ==
    LET sel == SelectSeq(steps, IsSheetStep)
    IN  [j \in 1..Len(sel) |-> sel[j].op]

IsPrefix(a, b) == Len(a) <= Len(b) /\ a = SubSeq(b, 1, Len(a))

\* C10, amended: a call never performs both open and create, and performs
\* exactly one of them once credential loading and authorization have
\* returned; in create mode the requests are create, share with the given
\* address, one append, in that order; in append mode there is no create
\* and no share; a share that fails leaves the spreadsheet created and no
\* row written.
C10_StepOrdering ==
    /\ ~(Performed("open") /\ Performed("create"))
    /\ (Step("authorize", PyNone, TRUE) \in {steps[j] : j \in 1..Len(steps)}
            /\ gpc # "sheet")
           => (Performed("open") # Performed("create"))
    /\ Performed("create") => IsPrefix(SheetOps, <<"create", "share", "append">>)
    /\ Performed("open") =>
           /\ IsPrefix(SheetOps, <<"open", "append">>)
           /\ ~created
    /\ \A j \in 1..Len(steps) :
           /\ steps[j].op = "share" => steps[j].arg = email_address
           /\ steps[j].op = "open" => steps[j].arg = spreadsheet_title
           /\ (steps[j].op = "share" /\ ~steps[j].ok) =>
                  (created /\ written = <<>> /\ ~Performed("append"))

C10_Witness ==
    /\ gpc = "done"
    /\ SheetOps = <<"create", "share", "append">>
    /\ Supplied(email_address)

=============================================================================
